---- MODULE Spec2Model ----
(***************************************************************************)
(* A model of src/src/mekf.py: the multiplicative extended Kalman filter   *)
(* (propagate_state, step) over the State namedtuple and the module-level  *)
(* q, β, P.                                                                *)
(*                                                                         *)
(* Numbers.  The source computes in IEEE-754 doubles (numpy / ulab).  A    *)
(* double is modelled as a fixed-point integer, the value times FP, with   *)
(* three reserved encodings for the non-finite doubles: NaN, PInf, NInf.   *)
(* Every arithmetic operator rounds to the nearest representable value and *)
(* follows the IEEE rules for the non-finite values (NaN absorbs, 0/0 and  *)
(* Inf-Inf and Inf*0 are NaN, x/0 is an infinity, NaN equals nothing).     *)
(*                                                                         *)
(* Units.  Covariances (P, W, V, P_p, S, P_u) are held in units of 1e-6:   *)
(* the source's W = V = I(6) * 1e-6 are then I(6).  The filter equations   *)
(* are homogeneous in that unit (S^-1 carries its inverse and the gain     *)
(* L = P_p C' S^-1 is unit-free), so this is a change of unit, not of the  *)
(* computation.                                                            *)
(*                                                                         *)
(* Names.  Greek identifiers of the source are spelled out: β beta,        *)
(* ω omega, δt dt, θ theta, ϕ phi, δx dx, δβ dbeta, v̂ vhat.                *)
(***************************************************************************)
EXTENDS Integers, Sequences, FiniteSets, TLC

(***************************************************************************)
(* Doubles                                                                 *)
(***************************************************************************)
FP == 1000
PInf == 2000000000
NInf == -2000000000
NaN == 2000000001

IsNaN(x) == x = NaN
IsInf(x) == x = PInf \/ x = NInf
IsFinite(x) == ~IsNaN(x) /\ ~IsInf(x)
Sgn(x) == IF x > 0 THEN 1 ELSE IF x < 0 THEN -1 ELSE 0
Abs(x) == IF x < 0 THEN -x ELSE x

\* n / d rounded to the nearest integer, halves away from zero (d > 0)
RndDiv(n, d) == IF n >= 0 THEN (2 * n + d) \div (2 * d)
                          ELSE -((2 * (-n) + d) \div (2 * d))

FNeg(x) == IF IsNaN(x) THEN NaN ELSE -x

FAdd(x, y) ==
    IF IsNaN(x) \/ IsNaN(y) THEN NaN
    ELSE IF IsInf(x) THEN (IF IsInf(y) /\ y # x THEN NaN ELSE x)
    ELSE IF IsInf(y) THEN y
    ELSE x + y

FSub(x, y) == FAdd(x, FNeg(y))

FMul(x, y) ==
    IF IsNaN(x) \/ IsNaN(y) THEN NaN
    ELSE IF IsInf(x) \/ IsInf(y)
         THEN (IF x = 0 \/ y = 0 THEN NaN
               ELSE IF Sgn(x) * Sgn(y) > 0 THEN PInf ELSE NInf)
    ELSE RndDiv(x * y, FP)

\* numpy's true_divide: no exception, 0/0 = nan, x/0 = +-inf
FDiv(x, y) ==
    IF IsNaN(x) \/ IsNaN(y) THEN NaN
    ELSE IF IsInf(x)
         THEN (IF IsInf(y) THEN NaN
               ELSE IF Sgn(x) * (IF y < 0 THEN -1 ELSE 1) > 0 THEN PInf ELSE NInf)
    ELSE IF IsInf(y) THEN 0
    ELSE IF y = 0
         THEN (IF x = 0 THEN NaN ELSE IF x > 0 THEN PInf ELSE NInf)
    ELSE Sgn(y) * RndDiv(x * FP, Abs(y))

\* IEEE equality: NaN compares unequal to everything, itself included
FEq(x, y) == ~IsNaN(x) /\ ~IsNaN(y) /\ x = y

\* floor of the square root of a natural number
RECURSIVE ISqrtIn(_, _, _)
ISqrtIn(n, lo, hi) ==
    IF lo >= hi THEN lo
    ELSE LET mid == (lo + hi + 1) \div 2
         IN  IF mid * mid <= n THEN ISqrtIn(n, mid, hi) ELSE ISqrtIn(n, lo, mid - 1)

\* the square root of a natural number, rounded to the nearest integer
SqrtBound == 46340
ISqrt(n) ==
    LET s == ISqrtIn(n, 0, SqrtBound)
    IN  IF n - s * s > s THEN s + 1 ELSE s

(***************************************************************************)
(* math.cos, math.sin                                                      *)
(***************************************************************************)
Pi == 3142

\* x brought into [-Pi, Pi] by whole turns
WrapPi(x) == x - 2 * Pi * RndDiv(x, 2 * Pi)

\* Taylor polynomials on [-Pi/2, Pi/2]; y and the result are fixed-point
SinPoly(y) ==
    LET y2 == RndDiv(y * y, FP)
        t3 == RndDiv(y * y2, 6 * FP)
        t5 == RndDiv(t3 * y2, 20 * FP)
        t7 == RndDiv(t5 * y2, 42 * FP)
        t9 == RndDiv(t7 * y2, 72 * FP)
    IN  y - t3 + t5 - t7 + t9

CosPoly(y) ==
    LET y2 == RndDiv(y * y, FP)
        t2 == RndDiv(y2, 2)
        t4 == RndDiv(t2 * y2, 12 * FP)
        t6 == RndDiv(t4 * y2, 30 * FP)
        t8 == RndDiv(t6 * y2, 56 * FP)
    IN  FP - t2 + t4 - t6 + t8

\* math.sin and math.cos raise ValueError ("math domain error") on an infinity
MathDomainError(x) == IsInf(x)

sin(x) ==
    IF IsNaN(x) \/ IsInf(x) THEN NaN
    ELSE LET y == WrapPi(x)
         IN  IF 2 * y > Pi THEN SinPoly(Pi - y)
             ELSE IF 2 * y < -Pi THEN SinPoly(-Pi - y)
             ELSE SinPoly(y)

cos(x) ==
    IF IsNaN(x) \/ IsInf(x) THEN NaN
    ELSE LET y == Abs(WrapPi(x))
         IN  IF 2 * y > Pi THEN -CosPoly(Pi - y) ELSE CosPoly(y)

(***************************************************************************)
(* numpy / ulab arrays: a vector is a tuple of doubles, a matrix a tuple   *)
(* of rows                                                                 *)
(***************************************************************************)
\* an ndarray holds its elements: the tuple of the values of f on 1..Len(f)
array(f) == f \o <<>>

array3(a, b, c) == <<a * FP, b * FP, c * FP>>
array4(a, b, c, d) == <<a * FP, b * FP, c * FP, d * FP>>

VAdd(a, b) == array([i \in 1..Len(a) |-> FAdd(a[i], b[i])])
VSub(a, b) == array([i \in 1..Len(a) |-> FSub(a[i], b[i])])
VNeg(a) == array([i \in 1..Len(a) |-> FNeg(a[i])])
VScale(a, s) == array([i \in 1..Len(a) |-> FMul(a[i], s)])
VDiv(a, s) == array([i \in 1..Len(a) |-> FDiv(a[i], s)])
concat(a, b) == a \o b

MAdd(A, B) == array([i \in 1..Len(A) |-> VAdd(A[i], B[i])])
MSub(A, B) == array([i \in 1..Len(A) |-> VSub(A[i], B[i])])
MScale(A, s) == array([i \in 1..Len(A) |-> VScale(A[i], s)])
transpose(A) == array([j \in 1..Len(A[1]) |-> array([i \in 1..Len(A) |-> A[i][j]])])

\* eye(n) and zeros((n, m))
I(n) == array([i \in 1..n |-> array([j \in 1..n |-> IF i = j THEN FP ELSE 0])])
zeros(n, m) == array([i \in 1..n |-> array([j \in 1..m |-> 0])])

\* the sum a[1]*b[1] + ... + a[n]*b[n], accumulated left to right
RECURSIVE DotN(_, _, _)
DotN(a, b, n) ==
    IF n = 0 THEN 0 ELSE FAdd(DotN(a, b, n - 1), FMul(a[n], b[n]))

\* matmul / dot of a matrix with a vector, and of two matrices
matmul_vec(A, b) == array([i \in 1..Len(A) |-> DotN(A[i], b, Len(b))])
\* the rows of A against the rows of Bt, the transpose of the right factor
RowsByRows(A, Bt) ==
    array([i \in 1..Len(A) |->
              array([j \in 1..Len(Bt) |-> DotN(A[i], Bt[j], Len(A[i]))])])

matmul(A, B) == RowsByRows(A, transpose(B))

AnyNaN(a) == \E i \in 1..Len(a) : IsNaN(a[i])
AnyInf(a) == \E i \in 1..Len(a) : IsInf(a[i])
AllFinite(a) == \A i \in 1..Len(a) : IsFinite(a[i])
MAllFinite(A) == \A i \in 1..Len(A) : AllFinite(A[i])
MAnyNaN(A) == \E i \in 1..Len(A) : AnyNaN(A[i])

RECURSIVE SumSq(_, _)
SumSq(a, n) == IF n = 0 THEN 0 ELSE SumSq(a, n - 1) + a[n] * a[n]

\* linalg.norm of a vector: sqrt(sum(a * a))
norm(a) ==
    IF AnyNaN(a) THEN NaN
    ELSE IF AnyInf(a) THEN PInf
    ELSE ISqrt(SumSq(a, Len(a)))

(***************************************************************************)
(* linalg.inv: elimination with partial pivoting on [A | I].  An exactly   *)
(* zero pivot is a singular matrix (numpy raises LinAlgError); a NaN never *)
(* compares greater, nor equal to zero, so it is eliminated with like any  *)
(* other pivot.                                                            *)
(***************************************************************************)
AbsGT(a, b) == ~IsNaN(a) /\ ~IsNaN(b) /\ Abs(a) > Abs(b)

\* the pivot row for column k: the first row of k..n of largest magnitude
RECURSIVE PivotRow(_, _, _, _)
PivotRow(M, k, i, best) ==
    IF i > Len(M) THEN best
    ELSE PivotRow(M, k, i + 1, IF AbsGT(M[i][k], M[best][k]) THEN i ELSE best)

SwapRows(M, a, b) ==
    [i \in 1..Len(M) |-> IF i = a THEN M[b] ELSE IF i = b THEN M[a] ELSE M[i]]

\* row k scaled to a unit pivot (prow), and taken out of every other row
EliminateWith(M, k, prow) ==
    array([i \in 1..Len(M) |->
              IF i = k THEN prow
              ELSE VSub(M[i], VScale(prow, M[i][k]))])

Eliminate(M, k) == EliminateWith(M, k, VDiv(M[k], M[k][k]))

RECURSIVE GaussJordan(_, _)
GaussJordanPivoted(Mp, k) ==
    IF FEq(Mp[k][k], 0) THEN [singular |-> TRUE, M |-> Mp]
    ELSE GaussJordan(Eliminate(Mp, k), k + 1)

GaussJordan(M, k) ==
    IF k > Len(M) THEN [singular |-> FALSE, M |-> M]
    ELSE GaussJordanPivoted(SwapRows(M, k, PivotRow(M, k, k + 1, k)), k)

Augmented(A) == array([i \in 1..Len(A) |-> concat(A[i], I(Len(A))[i])])
RightHalf(gj) ==
    [singular |-> gj.singular,
     M |-> array([i \in 1..Len(gj.M) |-> SubSeq(gj.M[i], Len(gj.M) + 1, 2 * Len(gj.M))])]

inv(A) == RightHalf(GaussJordan(Augmented(A), 1))

(***************************************************************************)
(* mathutils (imported by mekf.py, line 19)                                *)
(***************************************************************************)
\* the skew-symmetric cross-product matrix of a 3-vector
hat(v) == << <<0, FNeg(v[3]), v[2]>>,
             <<v[3], 0, FNeg(v[1])>>,
             <<FNeg(v[2]), v[1], 0>> >>

\* a 6x6 matrix from four 3x3 blocks: block([[A, B], [C, D]])
block(A, B, C, D) ==
    array([i \in 1..6 |-> IF i <= 3 THEN concat(A[i], B[i]) ELSE concat(C[i - 3], D[i - 3])])

\* L(q), with L(q) p = q (x) p; scalar-first quaternions
quaternion_to_left_matrix(a) ==
    << <<a[1], FNeg(a[2]), FNeg(a[3]), FNeg(a[4])>>,
       <<a[2], a[1], FNeg(a[4]), a[3]>>,
       <<a[3], a[4], a[1], FNeg(a[2])>>,
       <<a[4], FNeg(a[3]), a[2], a[1]>> >>

\* the Hamilton product a (x) b
quaternion_mul(a, b) == matmul_vec(quaternion_to_left_matrix(a), b)

\* the rotation matrix of a quaternion
quaternion_to_rotation_matrix(a) ==
    LET s == a[1]
        x == a[2]
        y == a[3]
        z == a[4]
        ss == FMul(s, s)
        xx == FMul(x, x)
        yy == FMul(y, y)
        zz == FMul(z, z)
        Two(u) == FAdd(u, u)
    IN  << <<FSub(FAdd(ss, xx), FAdd(yy, zz)),
             Two(FSub(FMul(x, y), FMul(s, z))),
             Two(FAdd(FMul(x, z), FMul(s, y)))>>,
           <<Two(FAdd(FMul(x, y), FMul(s, z))),
             FSub(FAdd(ss, yy), FAdd(xx, zz)),
             Two(FSub(FMul(y, z), FMul(s, x)))>>,
           <<Two(FSub(FMul(x, z), FMul(s, y))),
             Two(FAdd(FMul(y, z), FMul(s, x))),
             FSub(FAdd(ss, zz), FAdd(xx, yy))>> >>

(***************************************************************************)
(* mekf.py                                                                 *)
(***************************************************************************)
VARIABLES
    q,        \* module-level q (line 22)
    beta,     \* module-level β (line 23)
    P,        \* module-level P (line 24)
    state,    \* the State the caller holds and passes to the next call
    call,     \* the last call: the function, the State passed, the inputs
    result,   \* what the last call delivered: a return value or an exception
    locals,   \* the locals of the last step call when it returned
    cycles    \* the number of calls made

vars == <<q, beta, P, state, call, result, locals, cycles>>

\* namedtuple('State', ['q', 'β', 'P'])
State(q_, beta_, P_) == [q |-> q_, beta |-> beta_, P |-> P_]

\* process and measurement noise on the diagonal, in units of 1e-6
NoiseW == 1
NoiseV == 1

\* def propagate_state(q, β, ω, δt): the value returned, or the exception
\* [cos(θ/2), r sin(θ/2)]
AxisAngle(r, half) == concat(<<cos(half)>>, VScale(r, sin(half)))

\* propagate_state without the early return of lines 38-39
PropagateByUnguarded(q_, w, n, dt) ==
    IF MathDomainError(FDiv(FMul(n, dt), 2 * FP))
    THEN [raised |-> "ValueError"]
    ELSE [raised |-> "none",
          value |-> quaternion_mul(q_, AxisAngle(VDiv(w, n), FDiv(FMul(n, dt), 2 * FP)))]

\* propagate_state, lines 37-41, with w = ω - β and n = linalg.norm(ω - β)
PropagateBy(q_, w, n, dt) ==
    IF FEq(n, 0) THEN [raised |-> "none", value |-> q_]
    ELSE IF MathDomainError(FDiv(FMul(n, dt), 2 * FP))
         THEN [raised |-> "ValueError"]
    ELSE [raised |-> "none",
          value |-> quaternion_mul(q_, AxisAngle(VDiv(w, n), FDiv(FMul(n, dt), 2 * FP)))]

\* def propagate_state(q, β, ω, δt): the value returned, or the exception
propagate_state(q_, beta_, omega, dt) ==
    PropagateBy(q_, VSub(omega, beta_), norm(VSub(omega, beta_)), dt)

\* step, lines 69-72: R = exp(-hat(ω - β) δt), with the module-level β
Rodrigues(vhat, ang) ==
    MAdd(MAdd(I(3), MScale(vhat, sin(ang))),
         MScale(matmul(vhat, vhat), FSub(FP, cos(ang))))

RotationBlock(v, mag, dt) == Rodrigues(hat(VDiv(v, mag)), FMul(mag, dt))

\* step, lines 74-77: A and P_p = A P A' + W
TransitionMatrix(R, dt) == block(R, MScale(I(3), FNeg(dt)), zeros(3, 3), I(3))

PropagateCovariance(A, P0) ==
    MAdd(matmul(A, matmul(P0, transpose(A))), MScale(I(6), NoiseW * FP))

\* the locals of step, gathered as its lines run; raised names the exception
\* that ended the call, if one did
Predicted(prop, v, mag, dt, R, P_p) ==
    [raised |-> IF prop.raised # "none" THEN prop.raised
                ELSE IF MathDomainError(FMul(mag, dt)) THEN "ValueError"
                ELSE "none",
     q_p |-> IF prop.raised = "none" THEN prop.value ELSE <<>>, v |-> v, mag |-> mag, R |-> R, P_p |-> P_p]

PredictCovariance(st, prop, v, mag, dt, R) ==
    Predicted(prop, v, mag, dt, R, PropagateCovariance(TransitionMatrix(R, dt), st.P))

PredictRotation(st, prop, v, dt) ==
    PredictCovariance(st, prop, v, norm(v), dt, RotationBlock(v, norm(v), dt))

\* step, lines 61-77: the prediction
Predict(st, omega, dt) ==
    PredictRotation(st, propagate_state(st.q, st.beta, omega, dt),
                    VNeg(VSub(omega, beta)), dt)

\* step, lines 80-85: Z = body_measurements - inertial_to_body . inertial_measurements
InertialToBody(Q) == block(Q, zeros(3, 3), zeros(3, 3), Q)

InnovationVector(q_p, nr_mag, nr_sun, br_mag, br_sun) ==
    VSub(concat(br_mag, br_sun),
         matmul_vec(InertialToBody(transpose(quaternion_to_rotation_matrix(q_p))),
                    concat(nr_mag, nr_sun)))

\* step, lines 86-87
Sensitivity(br_mag, br_sun) ==
    block(hat(br_mag), zeros(3, 3), hat(br_sun), zeros(3, 3))

\* step, line 88: S = C P_p C' + V
InnovationCovariance(C, P_p) ==
    MAdd(matmul(C, matmul(P_p, transpose(C))), MScale(I(6), NoiseV * FP))

\* step, line 91: L = P_p C' S^-1
KalmanGain(P_p, C, Sinv) == matmul(P_p, matmul(transpose(C), Sinv))

\* step, lines 97-100: q_u = L(q_p) [cos(θ/2), r sin(θ/2)]
AttitudeUpdate(q_p, phi, theta) ==
    matmul_vec(quaternion_to_left_matrix(q_p),
               AxisAngle(VDiv(phi, theta), FDiv(theta, 2 * FP)))

\* step, line 101: β_u = β + δβ, with the module-level β
BiasUpdate(dbeta) == VAdd(beta, dbeta)

\* step, lines 102-106: the Joseph form
CovarianceUpdate(L, C, P_p) ==
    MAdd(matmul(MSub(I(6), matmul(L, C)),
                matmul(P_p, transpose(MSub(I(6), matmul(L, C))))),
         matmul(L, matmul(MScale(I(6), NoiseV * FP), transpose(L))))

\* step, lines 110-111
Returned(pr, Z, C, S, Sinv, dx, theta, q_u, beta_u, P_u) ==
    IF pr.raised # "none" THEN [raised |-> pr.raised]
    ELSE IF Sinv.singular THEN [raised |-> "LinAlgError"]
    ELSE IF MathDomainError(FDiv(theta, 2 * FP)) THEN [raised |-> "ValueError"]
    ELSE [raised |-> "none",
          value |-> State(VDiv(q_u, norm(q_u)), beta_u, P_u),
          q_p |-> pr.q_p, v |-> pr.v, mag |-> pr.mag, R |-> pr.R, P_p |-> pr.P_p,
          Z |-> Z, C |-> C, S |-> S, dx |-> dx, theta |-> theta, q_u |-> q_u]

UpdateState(pr, Z, C, S, Sinv, L, dx, theta) ==
    Returned(pr, Z, C, S, Sinv, dx, theta,
             AttitudeUpdate(pr.q_p, SubSeq(dx, 1, 3), theta),
             BiasUpdate(SubSeq(dx, 4, 6)),
             CovarianceUpdate(L, C, pr.P_p))

UpdateCorrection(pr, Z, C, S, Sinv, L, dx) ==
    UpdateState(pr, Z, C, S, Sinv, L, dx, norm(SubSeq(dx, 1, 3)))

UpdateGain(pr, Z, C, S, Sinv, L) ==
    UpdateCorrection(pr, Z, C, S, Sinv, L, matmul_vec(L, Z))

UpdateInverse(pr, Z, C, S, Sinv) ==
    UpdateGain(pr, Z, C, S, Sinv, KalmanGain(pr.P_p, C, Sinv.M))

Update(pr, Z, C, S) == UpdateInverse(pr, Z, C, S, inv(S))

Innovation(pr, Z, C) == Update(pr, Z, C, InnovationCovariance(C, pr.P_p))

Measure(pr, nr_mag, nr_sun, br_mag, br_sun) ==
    Innovation(pr, InnovationVector(pr.q_p, nr_mag, nr_sun, br_mag, br_sun),
               Sensitivity(br_mag, br_sun))

\* def step(state, ω, δt, nr_mag, nr_sun, br_mag, br_sun)
step(st, omega, dt, nr_mag, nr_sun, br_mag, br_sun) ==
    Measure(Predict(st, omega, dt), nr_mag, nr_sun, br_mag, br_sun)

(***************************************************************************)
(* What a call leaves behind.  State is a namedtuple (immutable), step and *)
(* propagate_state assign only to local names and apply no in-place        *)
(* operator: the State passed in and the module-level q, β, P keep their   *)
(* values, whatever the call computed.                                     *)
(***************************************************************************)
ArgumentAfterCall(st, out) == st

\* step rebinding the module-level names to what it returns (global q, β, P)
ModuleReboundByStep(g, out) ==
    IF out.raised = "none"
    THEN [q |-> out.value.q, beta |-> out.value.beta, P |-> out.value.P]
    ELSE g

ModuleAfterStep(g, out) == g

ModuleAfterPropagate(g, out) == g

(***************************************************************************)
(* The inputs the caller supplies                                          *)
(***************************************************************************)
MaxCycles == 2

NaN3 == <<NaN, NaN, NaN>>

\* gyro readings: at rest, 1 rad/s about z, a NaN component, an infinite one
Rest == array3(0, 0, 0)
Spin == array3(0, 0, 1)
Omegas == {Rest, Spin, <<NaN, 0, 0>>, <<0, 0, PInf>>}

\* time steps: none, one second
Dts == {0, FP}

\* paired vector observations: the references, and the measured body vectors
Observation(nr_mag, nr_sun, br_mag, br_sun) ==
    [nr_mag |-> nr_mag, nr_sun |-> nr_sun, br_mag |-> br_mag, br_sun |-> br_sun]

\* body vectors equal to the references
Aligned == Observation(array3(1, 0, 0), array3(0, 1, 0), array3(1, 0, 0), array3(0, 1, 0))
\* body vectors: the references seen after 1 rad about z
Rotated == Observation(array3(1, 0, 0), array3(0, 1, 0), <<540, -841, 0>>, <<841, 540, 0>>)
\* both measured body vectors zero: C is the zero matrix
Dark == Observation(array3(1, 0, 0), array3(0, 1, 0), array3(0, 0, 0), array3(0, 0, 0))
\* a non-finite measured body vector, a non-finite reference vector
NaNBody == Observation(array3(1, 0, 0), array3(0, 1, 0), NaN3, array3(0, 1, 0))
NaNReference == Observation(array3(1, 0, 0), NaN3, array3(1, 0, 0), array3(0, 1, 0))

Cycle(omega, dt, m) == [omega |-> omega, dt |-> dt, m |-> m]

\* the sensor cycles the caller may run
Cycles ==
    { Cycle(Rest, FP, Aligned),
      Cycle(Spin, FP, Aligned),
      Cycle(Spin, FP, Rotated),
      Cycle(Spin, FP, Dark),
      Cycle(Spin, 0, Aligned),
      Cycle(Spin, FP, NaNBody),
      Cycle(Spin, FP, NaNReference),
      Cycle(<<NaN, 0, 0>>, FP, Aligned),
      Cycle(<<0, 0, PInf>>, FP, Aligned) }

\* a covariance that is not positive semi-definite: -2e-6 on the attitude
\* diagonal, 1e-6 on the bias diagonal
Indefinite ==
    array([i \in 1..6 |->
              array([j \in 1..6 |-> IF i # j THEN 0 ELSE IF i <= 3 THEN -2 * FP ELSE FP])])

\* the priors the caller may seed: unit quaternion, zero or non-zero bias,
\* covariance 1e-6 I(6); the last two have a non-finite covariance entry and
\* an indefinite covariance
Priors ==
    { State(array4(1, 0, 0, 0), array3(0, 0, 0), I(6)),
      State(array4(1, 0, 0, 0), array3(0, 0, 1), I(6)),
      State(array4(1, 0, 0, 0), array3(0, 0, 0), [I(6) EXCEPT ![1][1] = NaN]),
      State(array4(1, 0, 0, 0), array3(0, 0, 0), Indefinite) }

NoCall == [fn |-> "none"]
NoResult == [kind |-> "none"]

Init ==
    /\ q = <<0, 0, 0, 0>>
    /\ beta = <<0, 0, 0>>
    /\ P = [i \in 1..6 |-> [j \in 1..6 |-> IF i = j THEN 1000000 * FP ELSE 0]]
    /\ state \in Priors
    /\ call = NoCall
    /\ result = NoResult
    /\ locals = [raised |-> "none"]
    /\ cycles = 0

\* a call of step returns or raises: out is what step computed, module the
\* module-level names after it
StepCall(c, out, module) ==
    /\ call' = [fn |-> "step", state |-> state, omega |-> c.omega, dt |-> c.dt,
                nr_mag |-> c.m.nr_mag, nr_sun |-> c.m.nr_sun,
                br_mag |-> c.m.br_mag, br_sun |-> c.m.br_sun]
    /\ result' = IF out.raised = "none"
                 THEN [kind |-> "State", value |-> out.value]
                 ELSE [kind |-> out.raised]
    /\ locals' = out
    /\ state' = ArgumentAfterCall(state, out)
    /\ q' = module.q
    /\ beta' = module.beta
    /\ P' = module.P

StepOutcome(c, out) ==
    StepCall(c, out, ModuleAfterStep([q |-> q, beta |-> beta, P |-> P], out))

\* the caller runs one filter cycle: step(state, ω, δt, nr_mag, nr_sun, br_mag, br_sun)
Step ==
    /\ cycles < MaxCycles
    /\ \E c \in Cycles :
          StepOutcome(c, step(state, c.omega, c.dt,
                              c.m.nr_mag, c.m.nr_sun, c.m.br_mag, c.m.br_sun))
    /\ cycles' = cycles + 1

PropagateCall(omega, dt, out, module) ==
    /\ call' = [fn |-> "propagate_state", state |-> state, omega |-> omega, dt |-> dt]
    /\ result' = IF out.raised = "none"
                 THEN [kind |-> "quaternion", value |-> out.value]
                 ELSE [kind |-> out.raised]
    /\ state' = ArgumentAfterCall(state, out)
    /\ q' = module.q
    /\ beta' = module.beta
    /\ P' = module.P

PropagateOutcome(omega, dt, out) ==
    PropagateCall(omega, dt, out,
                  ModuleAfterPropagate([q |-> q, beta |-> beta, P |-> P], out))

\* the caller advances the attitude alone: propagate_state(state.q, state.β, ω, δt)
Propagate ==
    /\ cycles < MaxCycles
    /\ \E omega \in Omegas, dt \in Dts \cup {NaN} :
          PropagateOutcome(omega, dt, propagate_state(state.q, state.beta, omega, dt))
    /\ locals' = [raised |-> "none"]
    /\ cycles' = cycles + 1

\* the caller threads the State step returned into the next cycle
Thread ==
    /\ result.kind = "State"
    /\ state' = result.value
    /\ result' = NoResult
    /\ UNCHANGED <<q, beta, P, call, locals, cycles>>

\* the caller keeps the attitude propagate_state returned
ThreadAttitude ==
    /\ result.kind = "quaternion"
    /\ state' = State(result.value, state.beta, state.P)
    /\ result' = NoResult
    /\ UNCHANGED <<q, beta, P, call, locals, cycles>>

Next == Step \/ Propagate \/ Thread \/ ThreadAttitude

Spec == Init /\ [][Next]_vars

(***************************************************************************)
(* Properties                                                              *)
(***************************************************************************)
\* tolerance, in units of 1/FP, for "equal within floating-point tolerance"
Tol == 5

\* the last call was step (propagate_state) and the caller holds its outcome
StepCalled == call.fn = "step" /\ result.kind # "none"
StepReturned == call.fn = "step" /\ result.kind = "State"
PropagateCalled == call.fn = "propagate_state" /\ result.kind # "none"

Near(x, y) == IsFinite(x) /\ IsFinite(y) /\ Abs(x - y) <= Tol
Symmetric(M) == \A i \in 1..Len(M), j \in 1..Len(M) : Near(M[i][j], M[j][i])
UnitNorm(a) == Near(norm(a), FP)
NonNegativeDiagonal(M) == \A i \in 1..Len(M) : M[i][i] >= 0

\* the gyro reading of the last call equals the bias of the State passed in
GyroEqualsBias == FEq(norm(VSub(call.omega, call.state.beta)), 0)

\* the State passed to the last call is valid: unit quaternion, finite bias,
\* finite symmetric covariance with a non-negative diagonal
ValidState ==
    /\ AllFinite(call.state.q) /\ UnitNorm(call.state.q)
    /\ AllFinite(call.state.beta)
    /\ Symmetric(call.state.P) /\ NonNegativeDiagonal(call.state.P)

FiniteMeasurements ==
    /\ AllFinite(call.nr_mag) /\ AllFinite(call.nr_sun)
    /\ AllFinite(call.br_mag) /\ AllFinite(call.br_sun)

UnitMeasurements ==
    /\ UnitNorm(call.nr_mag) /\ UnitNorm(call.nr_sun)
    /\ UnitNorm(call.br_mag) /\ UnitNorm(call.br_sun)

\* the last call of step had valid inputs: a valid State, a finite gyro
\* reading, a finite positive time step, finite unit observation vectors
ValidInputs ==
    /\ ValidState
    /\ AllFinite(call.omega) /\ IsFinite(call.dt) /\ call.dt > 0
    /\ FiniteMeasurements /\ UnitMeasurements

\* C1: the bias step returns is the bias of the State passed in plus the bias
\* part of the correction, β_u = state.β + δβ
C1_BiasAddsToStateBias ==
    (StepReturned /\ ValidInputs) =>
        result.value.beta = VAdd(call.state.beta, SubSeq(locals.dx, 4, 6))

\* C2: for valid inputs, the quaternion step returns has norm 1
C2_ReturnedQuaternionIsUnit ==
    (StepReturned /\ ValidInputs) => UnitNorm(result.value.q)

\* C3: when the rotation-error magnitude θ is 0, the updated attitude is the
\* predicted attitude, q_u = q_p
C3_ZeroCorrectionKeepsAttitude ==
    (StepReturned /\ ValidInputs /\ FEq(locals.theta, 0)) => locals.q_u = locals.q_p

\* C4: when the gyro reading equals the bias of a valid State, step completes
\* with q_p = state.q, R = I(3) and a defined (finite) P_p
C4_DegenerateRotationIsIdentity ==
    (StepCalled /\ ValidInputs /\ GyroEqualsBias) =>
        /\ result.kind = "State"
        /\ locals.q_p = call.state.q
        /\ locals.R = I(3)
        /\ MAllFinite(locals.P_p)

\* C5: when both measured body vectors are zero (C is the zero matrix), step
\* on a valid State and a finite gyro reading signals a singularity (the
\* LinAlgError of linalg.inv) and returns no State
C5_ZeroSensitivityIsSignalled ==
    (StepCalled /\ ValidState /\ AllFinite(call.omega) /\ IsFinite(call.dt)
                /\ call.br_mag = array3(0, 0, 0) /\ call.br_sun = array3(0, 0, 0)) =>
        result.kind = "LinAlgError"

\* C6: when ω, a measurement vector or state.P holds a non-finite value, step
\* fails and returns no State
C6_NonFiniteInputIsRejected ==
    (StepCalled /\ NonNegativeDiagonal(call.state.P)
                /\ ~(AllFinite(call.omega) /\ FiniteMeasurements
                     /\ MAllFinite(call.state.P))) =>
        result.kind # "State"

\* C7: when ω equals β exactly, propagate_state returns q itself, without
\* error, every time it is applied; so step's predicted attitude is state.q
C7_PropagateIsIdentityAtBias ==
    /\ (PropagateCalled /\ GyroEqualsBias) =>
           (result.kind = "quaternion" /\ result.value = call.state.q)
    /\ (StepReturned /\ GyroEqualsBias) => locals.q_p = call.state.q

\* C7 witness: a second application in a row, at a non-zero bias, with a
\* time step of one second, returned the attitude passed in
C7_Witness ==
    /\ PropagateCalled /\ GyroEqualsBias /\ cycles = 2
    /\ call.omega = Spin /\ call.dt = FP
    /\ result.kind = "quaternion" /\ result.value = call.state.q

\* C8: from a symmetric covariance, the covariance step returns is symmetric
C8_ReturnedCovarianceIsSymmetric ==
    (StepReturned /\ ValidInputs) => Symmetric(result.value.P)

\* C9: a call modifies nothing in place: while its outcome is held, the State
\* passed in and the module-level q, β, P have the values they had before
C9_NothingModifiedInPlace ==
    /\ q = <<0, 0, 0, 0>>
    /\ beta = <<0, 0, 0>>
    /\ P = [i \in 1..6 |-> [j \in 1..6 |-> IF i = j THEN 1000000 * FP ELSE 0]]
    /\ (call.fn # "none" /\ result.kind # "none") => state = call.state

\* C9 witness: the second step in a row returned a State that differs from
\* the one passed in
C9_Witness ==
    /\ StepReturned /\ cycles = 2
    /\ result.value # call.state
    /\ AllFinite(result.value.q) /\ MAllFinite(result.value.P)

\* C10: the rotation block of A is built from v = -(ω - state.β), the bias of
\* the State passed in, as the attitude prediction is
C10_TransitionUsesStateBias ==
    (StepReturned /\ ValidInputs) => locals.v = VNeg(VSub(call.omega, call.state.beta))
====
